---------------------------- MODULE Spec2Model ----------------------------
(***************************************************************************)
(* A model of the DistanceLadder preprocessing and outlier rejection:      *)
(*   outliers_rejection.py       single_kappa_clipping                     *)
(*   relativistic_corrections.py RLB_correction, interpolate_function,     *)
(*                               interpolated_K_corr_Cep / _TRGB           *)
(*   fit_parameters.py           the global configuration (module fp)      *)
(*                                                                         *)
(* Numbers are fixed point.  Residuals are small integers; kappa is held   *)
(* in tenths (2.7 is 27); the standard deviation is held exactly, as the   *)
(* pair (sq, n) with std = sqrt(sq) / n, so that every comparison of the   *)
(* code is decided without rounding.                                       *)
(***************************************************************************)
EXTENDS Integers, Sequences, FiniteSets, TLC

VARIABLES
    \* ---- fit_parameters.py (module fp), read by every function
    include_Cepheids, include_MW, fit_aB, fp_kappa,
    \* ---- single_kappa_clipping: arguments
    DF_dict, SNe_other, kappa,
    \* ---- single_kappa_clipping: locals
    DF_dict_outliers, errors, std, worst_Cep, worst_SNe, worst,
    N_Cep, N_anc, N_MW, N_SN, len_y, pc,
    \* ---- single_kappa_clipping: what it writes and prints on return
    out_files, report,
    \* ---- the rows of y that belong to no rejectable group, and the tables
    \*      as they were when the function was called
    n_rest, DF_orig,
    \* ---- RLB_correction: the number of runs so far, and the tables as the
    \*      first run left them
    rlb_runs, DF_once,
    \* ---- interpolate_function: its arguments, its locals (the five grids
    \*      and the 5D arrays), the interpolators it returns, the last value
    \*      read from one of them, and whether this scipy takes descending axes
    table, is_Cep, grid, arr, interp, last_eval, descending_ok,
    \* ---- interpolated_K_corr_Cep / _TRGB: the interpolators the caller holds
    \*      from earlier returns, the calls of interpolate_function and the
    \*      calls made without interpolators so far, the calls so far, the
    \*      last call (arguments, interpolators used and returned), and what
    \*      the last call printed and handed to the interpolators
    held, n_builds, n_omitted, n_calls, last_call, warnings, handed,
    \* ---- old_K_corr_Cep: its filter argument and the calls of its
    \*      interpolate helper so far (the redshift given, the m and c returned)
    old_filter, old_calls

fpVars  == <<include_Cepheids, include_MW, fit_aB, fp_kappa>>
rejVars == <<DF_dict, SNe_other, kappa, DF_dict_outliers, errors, std,
             worst_Cep, worst_SNe, worst, N_Cep, N_anc, N_MW, N_SN, len_y, pc,
             out_files, report, n_rest, DF_orig>>
rlbVars == <<rlb_runs, DF_once>>
gridVars == <<table, is_Cep, grid, arr, interp, last_eval, descending_ok>>
kVars == <<held, n_builds, n_omitted, n_calls, last_call, warnings, handed>>
oldVars == <<old_filter, old_calls>>
corrVars == <<rlbVars, gridVars, kVars, oldVars>>
vars    == <<fpVars, rejVars, corrVars>>

-----------------------------------------------------------------------------
(* Bounds of the model *)

\* the largest number of rows of y at the call (all groups together)
MaxTotal == 3
\* the numbers of supernovae outside [z_min, z_max] tried (SNe_other): the
\* function never looks inside that table
SNeOtherSizes == {0, 1}

\* the residuals the external fit may leave on a row
Res == {-1, 0, 1}
\* the values of kappa tried, in tenths: 1.0 and the default 2.7
KappaValues == {10, 27}

-----------------------------------------------------------------------------
(* numpy / Python helpers *)

Abs(x) == IF x < 0 THEN -x ELSE x

Min2(a, b) == IF a < b THEN a ELSE b

Max2(a, b) == IF a > b THEN a ELSE b

RECURSIVE SumSeq(_)
SumSeq(s) == IF s = <<>> THEN 0 ELSE Head(s) + SumSeq(Tail(s))

RECURSIVE SumSq(_)
SumSq(s) == IF s = <<>> THEN 0 ELSE Head(s) * Head(s) + SumSq(Tail(s))

\* np.abs(errors)
AbsSeq(s) == [i \in 1..Len(s) |-> Abs(s[i])]

\* np.max of a non-empty array
NpMax(s) == CHOOSE m \in {s[i] : i \in 1..Len(s)} :
                \A i \in 1..Len(s) : s[i] <= m

\* errors[:k], k >= 0
SliceTo(s, k) == SubSeq(s, 1, Min2(k, Len(s)))

\* errors[-n:], n >= 0; in Python -0 is 0, so errors[-0:] is the whole array
SliceLast(s, n) == IF n = 0 THEN s
                   ELSE SubSeq(s, Max2(1, Len(s) - n + 1), Len(s))

\* list(errors).index(v): the 0-based position of the first v, -1 for ValueError
ListIndex(s, v) ==
    IF \E i \in 1..Len(s) : s[i] = v
    THEN (CHOOSE i \in 1..Len(s) : s[i] = v /\ \A j \in 1..(i-1) : s[j] # v) - 1
    ELSE -1

\* np.std(errors): the population standard deviation, sqrt(sq)/n, of the signed
\* residuals; n = 0 is NaN
NpStd(s) == [sq |-> Len(s) * SumSq(s) - SumSeq(s) * SumSeq(s), n |-> Len(s)]

\* w >= (k/10) * std, false when std is NaN
GeKappaStd(w, k, s) ==
    /\ s.n > 0
    /\ w >= 0
    /\ 100 * s.n * s.n * w * w >= k * k * s.sq

\* w <= (k/10) * std, false when std is NaN
LeKappaStd(w, k, s) ==
    /\ s.n > 0
    /\ (w < 0 \/ 100 * s.n * s.n * w * w <= k * k * s.sq)

\* DataFrame.drop(index=i).reset_index(drop=True) on a table whose labels are
\* 0..n-1
DropRow(t, i) == [j \in 1..(Len(t) - 1) |-> IF j <= i THEN t[j] ELSE t[j + 1]]

\* DataFrame.iloc[[i]]
Iloc(t, i) == t[i + 1]

-----------------------------------------------------------------------------
(* The tables *)

Rejectable == {"Cepheids", "Cepheids_anchors", "Cepheids_MW", "SNe_Hubble"}
Groups     == Rejectable \cup {"TRGB", "TRGB_anchors"}

\* a table of n rows; a row is its identity, base + its position at the call
Table(base, n) == [i \in 1..n |-> base + i]

\* the keys of DF_dict_outliers, lines 41-48
OutlierKeys ==
    (IF include_Cepheids
     THEN {"Cepheids", "Cepheids_anchors"}
          \cup (IF include_MW THEN {"Cepheids_MW"} ELSE {})
     ELSE {})
    \cup (IF fit_aB THEN {"SNe_Hubble"} ELSE {})

\* the number of rows of the response vector y the fit builds from D:
\* the Cepheid-family rows first, in group order, then the rows of the other
\* indicators, then the supernovae of the Hubble diagram
LenY(D) ==
    (IF include_Cepheids
     THEN Len(D["Cepheids"]) + Len(D["Cepheids_anchors"])
          + (IF include_MW THEN Len(D["Cepheids_MW"]) ELSE 0)
     ELSE 0)
    + n_rest
    + (IF fit_aB THEN Len(D["SNe_Hubble"]) ELSE 0)

\* the residual vectors y - L q a fit of D may give
RECURSIVE SeqsOf(_, _)
SeqsOf(S, n) == IF n = 0 THEN {<<>>}
                ELSE {Append(s, x) : s \in SeqsOf(S, n - 1), x \in S}

FitResiduals(D) == SeqsOf(Res, LenY(D))


-----------------------------------------------------------------------------
(* single_kappa_clipping: the residual statistics, lines 57-73 and 113-128 *)

\* np.max(errors[:N_Cep+N_anc+N_MW]) raises ValueError on an empty slice
CepRaises(e, nc, na, nm) ==
    include_Cepheids /\ SliceTo(e, nc + na + nm) = <<>>

\* np.max(errors[-N_SN:]) raises ValueError on an empty slice
SNeRaises(e, nsn) ==
    fit_aB /\ SliceLast(e, nsn) = <<>>

\* worst_Cep: 0 unless the Cepheids are included
WorstCep(e, nc, na, nm) ==
    IF include_Cepheids /\ ~CepRaises(e, nc, na, nm)
    THEN NpMax(SliceTo(e, nc + na + nm))
    ELSE 0

\* WorstSNe without the test of fp.fit_aB
WorstSNe_Unguarded(e, nsn) ==
    IF e # <<>> THEN NpMax(SliceLast(e, nsn)) ELSE 0

\* worst_SNe: 0 unless aB is fitted
WorstSNe(e, nsn) ==
    IF fit_aB /\ ~SNeRaises(e, nsn)
    THEN NpMax(SliceLast(e, nsn))
    ELSE 0

\* The block that follows each fit: the group sizes, the two maxima and their
\* maximum, over the vector e (signed after the first fit, absolute after the
\* later ones).  old holds the locals as they were: a disabled class leaves its
\* sizes alone, and a ValueError leaves alone what the code had not yet assigned.
Measure(e, D, old) ==
    LET nc  == IF include_Cepheids THEN Len(D["Cepheids"]) ELSE old.N_Cep
        na  == IF include_Cepheids THEN Len(D["Cepheids_anchors"]) ELSE old.N_anc
        nm  == IF include_Cepheids
               THEN (IF include_MW THEN Len(D["Cepheids_MW"]) ELSE 0)
               ELSE old.N_MW
        cr  == CepRaises(e, nc, na, nm)
        nsn == IF fit_aB /\ ~cr THEN Len(D["SNe_Hubble"]) ELSE old.N_SN
        sr  == ~cr /\ SNeRaises(e, nsn)
        wc  == WorstCep(e, nc, na, nm)
        ws  == IF cr THEN 0 ELSE WorstSNe(e, nsn)
    IN  [N_Cep |-> nc, N_anc |-> na, N_MW |-> nm, N_SN |-> nsn,
         worst_Cep |-> wc, worst_SNe |-> ws,
         worst |-> IF cr \/ sr THEN old.worst ELSE Max2(ws, wc),
         raised |-> cr \/ sr]

-----------------------------------------------------------------------------
(* single_kappa_clipping: moving the worst row, lines 77-104 *)

\* MoveRow that drops the row without adding it to the excluded table
MoveRow_NoConcat(P, g, index) ==
    [act |-> [P.act EXCEPT ![g] = DropRow(@, index)], out |-> P.out]

\* pd.concat([outliers[g], active[g].iloc[[index]]]) and
\* active[g].drop(index=index).reset_index(drop=True)
MoveRow(P, g, index) ==
    [act |-> [P.act EXCEPT ![g] = DropRow(@, index)],
     out |-> [P.out EXCEPT ![g] = Append(@, Iloc(P.act[g], index))]]

\* lines 79-97: the Cepheid-family branches, by cumulative offset
MoveCepheid(P, index_worst, nc, na, nm) ==
    IF ~include_Cepheids THEN P
    ELSE IF index_worst < nc
         THEN MoveRow(P, "Cepheids", index_worst)
    ELSE IF index_worst < nc + na
         THEN MoveRow(P, "Cepheids_anchors", index_worst - nc)
    ELSE IF include_MW /\ index_worst < nc + na + nm
         THEN MoveRow(P, "Cepheids_MW", index_worst - nc - na)
    ELSE P

\* line 98: the trailing-window test of the supernova branch
InSNeWindow(index_worst, leny, nsn) ==
    fit_aB /\ index_worst > leny - nsn

\* lines 98-104: the supernova branch
MoveSNe(P, index_worst, leny, nsn) ==
    IF InSNeWindow(index_worst, leny, nsn)
    THEN MoveRow(P, "SNe_Hubble", index_worst - (leny - nsn))
    ELSE P

\* the whole of lines 78-104
MoveWorst(P, index_worst, leny, nc, na, nm, nsn) ==
    MoveSNe(MoveCepheid(P, index_worst, nc, na, nm), index_worst, leny, nsn)


-----------------------------------------------------------------------------
(* single_kappa_clipping as a state machine *)

Locals == [N_Cep |-> N_Cep, N_anc |-> N_anc, N_MW |-> N_MW, N_SN |-> N_SN,
           worst |-> worst]

NoTables == [g \in {} |-> <<>>]

\* Python's None, as a record so that it compares with the objects it stands for
None == [none |-> TRUE]

\* the variables of RLB_correction while it is not in use
RLBIdle ==
    /\ rlb_runs = 0
    /\ DF_once = NoTables

\* the variables of interpolate_function while it is not in use
GridIdle ==
    /\ table = <<>>
    /\ is_Cep = TRUE
    /\ grid = None
    /\ arr = None
    /\ interp = None
    /\ last_eval = None
    /\ descending_ok = TRUE

\* the variables of the K-correction apply steps before the first call
KIdle ==
    /\ held = [Cep |-> None, TRGB |-> None]
    /\ n_builds = [Cep |-> 0, TRGB |-> 0]
    /\ n_omitted = [Cep |-> 0, TRGB |-> 0]
    /\ n_calls = 0
    /\ last_call = None
    /\ warnings = <<>>
    /\ handed = <<>>

\* the variables of the correction engine while it is not in use
\* the variables of old_K_corr_Cep while it is not in use
OldIdle ==
    /\ old_filter = "W"
    /\ old_calls = <<>>

CorrIdle == RLBIdle /\ GridIdle /\ KIdle /\ OldIdle

\* The state before the call: a configuration, the tables of the caller, the
\* supernovae outside the fitting window and the kappa argument.
Init ==
    /\ CorrIdle
    /\ include_Cepheids \in BOOLEAN
    /\ include_MW \in BOOLEAN
    /\ fit_aB \in BOOLEAN
    /\ fp_kappa \in KappaValues
    /\ kappa \in KappaValues
    /\ \E nc \in 0..MaxTotal, na \in 0..MaxTotal, nm \in 0..MaxTotal,
          ns \in 0..MaxTotal, nr \in 0..MaxTotal :
         /\ nc + na + nm + ns + nr <= MaxTotal
         /\ n_rest = nr
         /\ DF_dict = [g \in Groups |->
                CASE g = "Cepheids"         -> Table(100, nc)
                  [] g = "Cepheids_anchors" -> Table(200, na)
                  [] g = "Cepheids_MW"      -> Table(300, nm)
                  [] g = "SNe_Hubble"       -> Table(400, ns)
                  [] g = "TRGB"             -> Table(500, 1)
                  [] g = "TRGB_anchors"     -> Table(600, 1)]
    /\ \E no \in SNeOtherSizes : SNe_other = Table(900, no)
    /\ DF_orig = DF_dict
    /\ DF_dict_outliers = NoTables
    /\ errors = <<>>
    /\ std = [sq |-> 0, n |-> 0]
    /\ worst_Cep = 0 /\ worst_SNe = 0 /\ worst = 0
    /\ N_Cep = 0 /\ N_anc = 0 /\ N_MW = 0 /\ N_SN = 0
    /\ len_y = 0
    /\ out_files = NoTables
    /\ report = NoTables
    /\ pc = "start"

\* NewOutliers with a table for every group of DF_dict
NewOutliers_AllGroups ==
    [g \in DOMAIN DF_dict |-> IF g = "SNe_Hubble" THEN SNe_other ELSE <<>>]

\* lines 40-48: the excluded partition as the function creates it
NewOutliers ==
    [g \in OutlierKeys |-> IF g = "SNe_Hubble" THEN SNe_other ELSE <<>>]

\* the assignment of the locals after a fit left the vector e
SetLocals(m) ==
    /\ N_Cep' = m.N_Cep /\ N_anc' = m.N_anc /\ N_MW' = m.N_MW /\ N_SN' = m.N_SN
    /\ worst_Cep' = m.worst_Cep /\ worst_SNe' = m.worst_SNe /\ worst' = m.worst
    /\ pc' = IF m.raised THEN "error" ELSE "loop"

\* lines 36-73: the excluded partition, the first fit and its statistics, on
\* the signed residuals
FirstIteration ==
    /\ pc = "start"
    /\ DF_dict_outliers' = NewOutliers
    /\ \E e \in FitResiduals(DF_dict) :
         /\ errors' = e
         /\ len_y' = Len(e)
         /\ std' = NpStd(e)
         /\ SetLocals(Measure(e, DF_dict, Locals))
    /\ UNCHANGED <<fpVars, DF_dict, SNe_other, kappa, out_files, report,
                   n_rest, DF_orig, corrVars>>

\* line 76: the test of the while loop
LoopTest == GeKappaStd(worst, fp_kappa, std)

\* lines 76-128: one pass of the loop body: find the worst row, move it, fit
\* again, and take the statistics on the absolute residuals
Iterate ==
    /\ pc = "loop"
    /\ LoopTest
    /\ LET index_worst == ListIndex(errors, worst)
           P == MoveWorst([act |-> DF_dict, out |-> DF_dict_outliers],
                          index_worst, len_y, N_Cep, N_anc, N_MW, N_SN)
       IN  IF index_worst = -1
           THEN /\ pc' = "error"
                /\ UNCHANGED <<DF_dict, DF_dict_outliers, errors, len_y, std,
                               worst_Cep, worst_SNe, worst,
                               N_Cep, N_anc, N_MW, N_SN>>
           ELSE /\ DF_dict' = P.act
                /\ DF_dict_outliers' = P.out
                /\ \E e \in FitResiduals(P.act) :
                     /\ errors' = AbsSeq(e)
                     /\ len_y' = Len(e)
                     /\ std' = NpStd(e)
                     /\ SetLocals(Measure(AbsSeq(e), P.act, Locals))
    /\ UNCHANGED <<fpVars, SNe_other, kappa, out_files, report, n_rest, DF_orig,
                   corrVars>>

\* lines 130-151: the loop has ended: one file per excluded group, one count
\* per group, and the return
Save ==
    /\ pc = "loop"
    /\ ~LoopTest
    /\ out_files' = DF_dict_outliers
    /\ report' = [g \in OutlierKeys |->
                    IF g = "SNe_Hubble"
                    THEN Len(DF_dict_outliers[g]) - Len(SNe_other)
                    ELSE Len(DF_dict_outliers[g])]
    /\ pc' = "done"
    /\ UNCHANGED <<fpVars, DF_dict, SNe_other, kappa, DF_dict_outliers, errors,
                   std, worst_Cep, worst_SNe, worst, N_Cep, N_anc, N_MW, N_SN,
                   len_y, n_rest, DF_orig, corrVars>>

Next == FirstIteration \/ Iterate \/ Save

Spec == Init /\ [][Next]_vars


-----------------------------------------------------------------------------
(* Claims about single_kappa_clipping *)

\* the positions of y (from 1) held by the Cepheid-family rows of the tables
CepPositions ==
    IF include_Cepheids
    THEN 1..(Len(DF_dict["Cepheids"]) + Len(DF_dict["Cepheids_anchors"])
             + (IF include_MW THEN Len(DF_dict["Cepheids_MW"]) ELSE 0))
    ELSE {}

\* the positions of y (from 1) held by the rows of SNe_Hubble
SNePositions ==
    IF fit_aB
    THEN (Len(errors) - Len(DF_dict["SNe_Hubble"]) + 1)..Len(errors)
    ELSE {}

\* the number of rows of the excluded table of g, none when there is no table
ExcludedCount(g) ==
    IF g \in DOMAIN DF_dict_outliers THEN Len(DF_dict_outliers[g]) ELSE 0

\* C1: when the loop has ended, every residual of the last fit on a row of an
\* enabled class is within kappa * std in magnitude, whatever its sign.  Stated
\* here for the calls whose kappa argument equals fp.kappa, where the threshold
\* of the claim and the threshold of line 76 are the same number.
C1_ConvergedOnExit ==
    (pc = "done" /\ kappa = fp_kappa) =>
        \A i \in CepPositions \cup SNePositions :
            LeKappaStd(Abs(errors[i]), kappa, std)

\* C2 as stated: for every group, at every iteration, the rows of the active
\* table and of the excluded table together number the rows the active table
\* had at the call.
C2_RowConservation ==
    pc \in {"loop", "done"} =>
        \A g \in Rejectable :
            Len(DF_dict[g]) + ExcludedCount(g) = Len(DF_orig[g])

\* C2 amended: the same for the three Cepheid groups; the excluded table of
\* SNe_Hubble starts as SNe_other, so for SNe_Hubble the two tables together
\* number the rows at the call plus the rows of SNe_other.  The rows are the
\* same rows, not only as many.
C2_RowConservationWithOther ==
    pc # "start" =>
        \A g \in Rejectable :
            LET extra == IF g = "SNe_Hubble" /\ fit_aB THEN SNe_other ELSE <<>>
                excl  == IF g \in DOMAIN DF_dict_outliers
                         THEN DF_dict_outliers[g] ELSE <<>>
            IN  /\ Len(DF_dict[g]) + ExcludedCount(g)
                     = Len(DF_orig[g]) + Len(extra)
                /\ {DF_dict[g][i] : i \in 1..Len(DF_dict[g])}
                     \cup {excl[i] : i \in 1..Len(excl)}
                     = {DF_orig[g][i] : i \in 1..Len(DF_orig[g])}
                       \cup {extra[i] : i \in 1..Len(extra)}

\* C2 witness: supernovae were held out, the loop has moved a supernova and
\* the function has returned
C2_Witness ==
    /\ pc = "done"
    /\ fit_aB
    /\ SNe_other # <<>>
    /\ Len(DF_dict["SNe_Hubble"]) < Len(DF_orig["SNe_Hubble"])

\* the group and the position in its table of the row at position i (from 0)
\* of the residual vector, by cumulative offset; <<"none", 0>> when the
\* position belongs to no rejectable row
RowAt(i) ==
    IF include_Cepheids /\ i < N_Cep
        THEN <<"Cepheids", i>>
    ELSE IF include_Cepheids /\ i < N_Cep + N_anc
        THEN <<"Cepheids_anchors", i - N_Cep>>
    ELSE IF include_Cepheids /\ include_MW /\ i < N_Cep + N_anc + N_MW
        THEN <<"Cepheids_MW", i - N_Cep - N_anc>>
    ELSE IF fit_aB /\ N_SN > 0 /\ i >= len_y - N_SN
        THEN <<"SNe_Hubble", i - (len_y - N_SN)>>
    ELSE <<"none", 0>>

\* C3: a pass of the loop whose worst residual sits on a rejectable row moves
\* exactly that row, from its active table to the excluded table of its group,
\* and nothing else.
C3_WorstRowMoved ==
    [][ LET i == ListIndex(errors, worst)
            r == RowAt(i)
        IN  (pc = "loop" /\ LoopTest /\ i >= 0 /\ r[1] # "none") =>
               /\ DF_dict' = [DF_dict EXCEPT ![r[1]] = DropRow(@, r[2])]
               /\ DF_dict_outliers' =
                     [DF_dict_outliers EXCEPT
                        ![r[1]] = Append(@, DF_dict[r[1]][r[2] + 1])]
      ]_vars

\* C4: with fit_aB off, worst_SNe is 0 after every fit, SNe_Hubble is the table
\* it was at the call, and no excluded table or file of supernovae exists.
C4_NoSNeWithoutFitAB ==
    ~fit_aB =>
        /\ worst_SNe = 0
        /\ DF_dict["SNe_Hubble"] = DF_orig["SNe_Hubble"]
        /\ "SNe_Hubble" \notin DOMAIN DF_dict_outliers
        /\ "SNe_Hubble" \notin DOMAIN out_files

\* C4 witness: fit_aB is off, SNe_Hubble has rows, and a pass of the loop has
\* moved a Cepheid and fitted again
C4_Witness ==
    /\ ~fit_aB
    /\ pc = "loop"
    /\ DF_dict["SNe_Hubble"] # <<>>
    /\ DF_dict["Cepheids"] # DF_orig["Cepheids"]

\* C5: once the loop has taken the last row of a group, the function is in its
\* error state: no fit, no pass of the loop and no return happens with the
\* group empty.
C5_DepletionFails ==
    \A g \in Rejectable :
        (DF_dict[g] = <<>> /\ DF_orig[g] # <<>>) => pc = "error"

\* C6: the loop goes on only while the worst residual is at least the kappa
\* argument times std, and ends only when it is at most that.
C6_ThresholdIsArgument ==
    [][ /\ (pc = "loop" /\ pc' = "done") =>
               (std.n = 0 \/ LeKappaStd(worst, kappa, std))
        /\ (pc = "loop" /\ pc' # "done") =>
               GeKappaStd(worst, kappa, std)
      ]_vars


-----------------------------------------------------------------------------
(* RLB_correction, relativistic_corrections.py lines 9-24 *)
(* logP is held in 1e-6 dex and z in 1e-4.                                 *)

\* the most rows of the Cepheids table, and the most runs of RLB_correction
MaxRLBRows == 2
MaxRuns == 2

\* the redshifts tried: none, 0.001, 0.01 and a blueshift of 0.001
ZValues == {0, 10, 100, -10}
\* the periods tried: logP = 1.0 and 1.5
LogPValues == {1000000, 1500000}

\* np.log10(1 + z) in 1e-6, at the redshifts of ZValues
Log10OnePlus(z) ==
    CASE z = 0   -> 0
      [] z = 10  -> 434
      [] z = 100 -> 4321
      [] z = -10 -> -435

\* the single-kappa-clipping variables while the Rejector is not in use
RejIdle ==
    /\ include_Cepheids = TRUE
    /\ fit_aB = TRUE
    /\ fp_kappa = 27
    /\ kappa = 27
    /\ SNe_other = <<>>
    /\ DF_dict_outliers = NoTables
    /\ errors = <<>>
    /\ std = [sq |-> 0, n |-> 0]
    /\ worst_Cep = 0 /\ worst_SNe = 0 /\ worst = 0
    /\ N_Cep = 0 /\ N_anc = 0 /\ N_MW = 0 /\ N_SN = 0
    /\ len_y = 0
    /\ out_files = NoTables
    /\ report = NoTables
    /\ n_rest = 0

rejIdleVars == <<include_Cepheids, fit_aB, fp_kappa, kappa, SNe_other,
                 DF_dict_outliers, errors, std, worst_Cep, worst_SNe, worst,
                 N_Cep, N_anc, N_MW, N_SN, len_y, out_files, report, n_rest>>

RLBRows == [logP : LogPValues, z : ZValues]

InitRLB ==
    /\ RejIdle
    /\ include_MW = TRUE
    /\ \E nc \in 0..MaxRLBRows, na \in {0, 1} :
         \E c \in [1..nc -> RLBRows], a \in [1..na -> RLBRows] :
            DF_dict = [g \in {"Cepheids", "Cepheids_anchors", "Cepheids_MW"} |->
                         CASE g = "Cepheids"         -> c
                           [] g = "Cepheids_anchors" -> a
                           [] g = "Cepheids_MW"      ->
                                 <<[logP |-> 1000000, z |-> 0]>>]
    /\ DF_orig = DF_dict
    /\ DF_once = NoTables
    /\ rlb_runs = 0
    /\ GridIdle
    /\ KIdle
    /\ OldIdle
    /\ pc = "rlb"

\* RLB_logP that leaves the period alone
RLB_logP_NoShift(row) == row.logP

\* lines 22-23, on one row: logP - np.log10(1 + z)
RLB_logP(row) == row.logP - Log10OnePlus(row.z)

\* lines 22-23, on a table: the column logP is replaced
RLB_table(t) == [i \in 1..Len(t) |-> [t[i] EXCEPT !.logP = RLB_logP(t[i])]]

\* lines 19-24: one run, in place, on Cepheids and Cepheids_anchors
RLB_correction ==
    /\ pc = "rlb"
    /\ rlb_runs < MaxRuns
    /\ DF_dict' = [DF_dict EXCEPT
                     !["Cepheids"] = RLB_table(@),
                     !["Cepheids_anchors"] = RLB_table(@)]
    /\ rlb_runs' = rlb_runs + 1
    /\ DF_once' = IF rlb_runs = 0 THEN DF_dict' ELSE DF_once
    /\ UNCHANGED <<include_MW, rejIdleVars, DF_orig, pc, gridVars, kVars, oldVars>>

NextRLB == RLB_correction

SpecRLB == InitRLB /\ [][NextRLB]_vars

\* the rows RLB_correction corrects, as <<group, position>>
RLBCorrected ==
    {x \in {"Cepheids", "Cepheids_anchors"} \X (1..MaxRLBRows + 1) :
        x[2] <= Len(DF_dict[x[1]])}

\* C8 as stated: after two runs every row of Cepheids and Cepheids_anchors has
\* logP = logP_old - 2 log10(1+z), and that is not its logP after one run.
C8_TwiceDiffersEveryRow ==
    rlb_runs = 2 =>
        \A x \in RLBCorrected :
            LET now  == DF_dict[x[1]][x[2]]
                old  == DF_orig[x[1]][x[2]]
                once == DF_once[x[1]][x[2]]
            IN  /\ now.logP = old.logP - 2 * Log10OnePlus(old.z)
                /\ now.logP # once.logP

\* C8 amended: after two runs every such row has logP = logP_old -
\* 2 log10(1+z); it differs from its logP after one run exactly when z # 0,
\* and then by a further log10(1+z).
C8_TwiceShiftsFurther ==
    rlb_runs = 2 =>
        \A x \in RLBCorrected :
            LET now  == DF_dict[x[1]][x[2]]
                old  == DF_orig[x[1]][x[2]]
                once == DF_once[x[1]][x[2]]
            IN  /\ now.logP = old.logP - 2 * Log10OnePlus(old.z)
                /\ once.logP = old.logP - Log10OnePlus(old.z)
                /\ now.logP = once.logP - Log10OnePlus(old.z)
                /\ (now.logP # once.logP) <=> (old.z # 0)

\* C8 witness: two runs over a table that holds a row at rest and a row with a
\* redshift, and over an anchor
C8_Witness ==
    /\ rlb_runs = 2
    /\ \E i, j \in 1..Len(DF_dict["Cepheids"]) :
          DF_dict["Cepheids"][i].z = 0 /\ DF_dict["Cepheids"][j].z # 0
    /\ DF_dict["Cepheids_anchors"] # <<>>


-----------------------------------------------------------------------------
(* interpolate_function, relativistic_corrections.py lines 26-83 *)
(* Teff in K, logg and [Fe/H] in tenths, z in 1e-3, E(B-V) in 1e-2.        *)

\* the most rows of the reference table
MaxTableRows == 3

\* the parameter columns, in the order of the interpolation point, and the
\* correction column of each band
Params == <<"Teff", "logg", "FeH", "z", "EBV">>

BandColumn(band) ==
    CASE band = "I" -> "F814WK"
      [] band = "H" -> "F160WK"
      [] band = "V" -> "F555WK"

\* the nodes the rows of the reference table are drawn from
NodePool ==
    { [Teff |-> 3500, logg |-> 0,  FeH |-> -20, z |-> 0,  EBV |-> 0],
      [Teff |-> 6000, logg |-> 20, FeH |-> 5,   z |-> 30, EBV |-> 40],
      [Teff |-> 4750, logg |-> 0,  FeH |-> 5,   z |-> 0,  EBV |-> 40],
      [Teff |-> 6000, logg |-> 0,  FeH |-> -20, z |-> 30, EBV |-> 0],
      [Teff |-> 3500, logg |-> 20, FeH |-> 5,   z |-> 30, EBV |-> 40],
      [Teff |-> 4750, logg |-> 20, FeH |-> -20, z |-> 30, EBV |-> 0] }

\* a row of the reference table: a node and its three corrections
TableRow(node, k) ==
    [Teff |-> node.Teff, logg |-> node.logg, FeH |-> node.FeH, z |-> node.z,
     EBV |-> node.EBV, F814WK |-> k, F160WK |-> 10 + k, F555WK |-> 20 + k]

\* the corrections tried on a row
KValues == {1, 2}

\* table[col] as a sequence
Column(t, col) == [i \in 1..Len(t) |-> t[i][col]]

\* Series.drop_duplicates().values: the first occurrences, in their order
DropDuplicates(s) ==
    LET F[i \in 0..Len(s)] ==
            IF i = 0 THEN <<>>
            ELSE IF \E j \in 1..(i - 1) : s[j] = s[i]
                 THEN F[i - 1]
                 ELSE Append(F[i - 1], s[i])
    IN  F[Len(s)]

\* lines 50-54
Grids(t) == [p \in {Params[i] : i \in 1..5} |-> DropDuplicates(Column(t, p))]

\* np.where(g == v) on a grid without duplicates: the one position of v
Where(g, v) == CHOOSE i \in 1..Len(g) : g[i] = v

\* lines 64-68: the cell (a, b, c, d, e) of a row
CellOf(G, row) == [i \in 1..5 |-> Where(G[Params[i]], row[Params[i]])]

\* line 57: np.zeros(shape=...)
Zeros(G) ==
    [c \in (1..Len(G["Teff"])) \X (1..Len(G["logg"])) \X (1..Len(G["FeH"]))
           \X (1..Len(G["z"])) \X (1..Len(G["EBV"])) |-> 0]

\* BandValue that reads the I column for every band
BandValue_AlwaysI(row, band) == row["F814WK"]

\* lines 71-74: what a row gives the array of a band
BandValue(row, band) == row[BandColumn(band)]

\* lines 57-74: the array of a band, the rows written in table order
Filled(t, G, band) ==
    LET F[i \in 0..Len(t)] ==
            IF i = 0 THEN Zeros(G)
            ELSE [F[i - 1] EXCEPT ![CellOf(G, t[i])] = BandValue(t[i], band)]
    IN  F[Len(t)]

\* the bands built, lines 58-59 and 72-74
Bands(cep) == IF cep THEN {"I", "H", "V"} ELSE {"I"}

StrictlyAscending(g)  == \A i \in 1..(Len(g) - 1) : g[i] < g[i + 1]

StrictlyDescending(g) == \A i \in 1..(Len(g) - 1) : g[i] > g[i + 1]

\* RegularGridInterpolator(points, values) raises ValueError unless every axis
\* is strictly ascending (or, in a scipy that takes them, strictly descending)
AxesRejected(G) ==
    \E i \in 1..5 :
        /\ ~StrictlyAscending(G[Params[i]])
        /\ ~(descending_ok /\ StrictlyDescending(G[Params[i]]))

\* lines 77-83: the tuple returned, None for the bands not built
Interpolators(G, A, cep) ==
    [b \in {"I", "H", "V"} |->
        IF b \in Bands(cep) THEN [points |-> G, values |-> A[b]] ELSE None]

\* RegularGridInterpolator.__call__ at a node of its grid: the value held at
\* the node (a multilinear interpolant weighs the node by 1 and the others by 0)
AtNode(f, x) == f.values[[i \in 1..5 |-> Where(f.points[Params[i]], x[i])]]

\* the point [Teff, logg, [Fe/H], z, E(B-V)] of a row
PointOf(row) == [i \in 1..5 |-> row[Params[i]]]

\* the reference tables tried: rows at distinct nodes, every parameter taking
\* at least two values (Table A1 tabulates each node once)
RefTables ==
    UNION { { t \in [1..n -> {TableRow(nd, k) : nd \in NodePool, k \in KValues}] :
                /\ \A i, j \in 1..n : i # j => PointOf(t[i]) # PointOf(t[j])
                /\ \A p \in 1..5 : \E i, j \in 1..n :
                       t[i][Params[p]] # t[j][Params[p]] }
            : n \in 2..MaxTableRows }

InitGrid ==
    /\ RejIdle
    /\ include_MW = TRUE
    /\ DF_dict = NoTables
    /\ DF_orig = NoTables
    /\ RLBIdle
    /\ KIdle
    /\ OldIdle
    /\ table \in RefTables
    /\ is_Cep \in BOOLEAN
    /\ descending_ok \in BOOLEAN
    /\ grid = None
    /\ arr = None
    /\ interp = None
    /\ last_eval = None
    /\ pc = "grid"

\* lines 49-83: the whole of interpolate_function
interpolate_function ==
    /\ pc = "grid"
    /\ LET G == Grids(table)
           A == [b \in Bands(is_Cep) |-> Filled(table, G, b)]
       IN  /\ grid' = G
           /\ arr' = A
           /\ IF AxesRejected(G)
              THEN interp' = None /\ pc' = "error"
              ELSE interp' = Interpolators(G, A, is_Cep) /\ pc' = "built"
    /\ UNCHANGED <<include_MW, rejIdleVars, DF_dict, DF_orig, rlbVars, kVars,
                   oldVars,
                   table, is_Cep, last_eval, descending_ok>>

\* the caller reads a returned interpolator at the node of a row of the table
Evaluate ==
    /\ pc = "built"
    /\ \E b \in Bands(is_Cep), i \in 1..Len(table) :
          last_eval' = [band |-> b, row |-> i,
                        value |-> AtNode(interp[b], PointOf(table[i]))]
    /\ UNCHANGED <<include_MW, rejIdleVars, DF_dict, DF_orig, rlbVars, kVars,
                   oldVars,
                   table, is_Cep, grid, arr, interp, descending_ok, pc>>

NextGrid == interpolate_function \/ Evaluate

SpecGrid == InitGrid /\ [][NextGrid]_vars

\* the position of the first v in the column s
FirstAt(s, v) == CHOOSE i \in 1..Len(s) : s[i] = v /\ \A j \in 1..(i-1) : s[j] # v

\* g holds the distinct values of the column s, each once, in the order in
\* which they first appear in s
FirstAppearance(g, s) ==
    /\ {g[i] : i \in 1..Len(g)} = {s[i] : i \in 1..Len(s)}
    /\ \A i, j \in 1..Len(g) : i < j => FirstAt(s, g[i]) < FirstAt(s, g[j])

\* C10: once interpolate_function has run, each grid axis holds the distinct
\* values of its column in order of first appearance, the array of every band
\* built holds each row's correction at the cell of its five coordinates, the
\* interpolator of every band built returns at each row's point exactly that
\* row's correction, and H and V are None for the TRGB.
C10_NodeValues ==
    /\ pc \in {"built", "error"} =>
          /\ \A p \in 1..5 :
                FirstAppearance(grid[Params[p]], Column(table, Params[p]))
          /\ DOMAIN arr = Bands(is_Cep)
          /\ \A b \in Bands(is_Cep), i \in 1..Len(table) :
                arr[b][[p \in 1..5 |->
                          FirstAt(grid[Params[p]], table[i][Params[p]])]]
                    = table[i][BandColumn(b)]
    /\ pc = "built" =>
          /\ \A b \in Bands(is_Cep), i \in 1..Len(table) :
                AtNode(interp[b], PointOf(table[i])) = table[i][BandColumn(b)]
          /\ \A b \in {"I", "H", "V"} \ Bands(is_Cep) : interp[b] = None
          /\ last_eval # None =>
                last_eval.value = table[last_eval.row][BandColumn(last_eval.band)]

\* C10 witness: the V interpolator of a Cepheid table of three Teff values,
\* read at the node of its last row
C10_Witness ==
    /\ pc = "built"
    /\ is_Cep
    /\ Len(grid["Teff"]) = 3
    /\ last_eval # None
    /\ last_eval.band = "V"
    /\ last_eval.row = Len(table)


-----------------------------------------------------------------------------
(* interpolated_K_corr_Cep and interpolated_K_corr_TRGB,                   *)
(* relativistic_corrections.py lines 85-233                                *)
(* Teff in 0.1 K, logg in 1e-4, [Fe/H] in 1e-2, z in 1e-4, E(B-V) in 1e-3, *)
(* logP in dex.  A magnitude is held as the list of the corrections taken  *)
(* from it: the value of an interpolator at a point is left uninterpreted. *)

\* the most rows of the Cepheids and of the TRGB table, and the most calls
MaxKRows == 1
MaxCalls == 2

\* fun_Teff, line 123: 10**(-0.0753*logP + 3.8094), at logP = 0, 1, 2, 4
fun_Teff(logP) ==
    CASE logP = 0 -> 64476
      [] logP = 1 -> 54213
      [] logP = 2 -> 45583
      [] logP = 4 -> 32226

\* fun_logg, line 125: -0.8808*logP + 2.1909
fun_logg(logP) == 21909 - 8808 * logP

\* the bounds written into the code, lines 133-160 and 218-224
Range ==
    [Teff |-> <<35000, 60000>>, logg |-> <<0, 20000>>,
     FeH  |-> <<-200, 50>>,     z    |-> <<0, 300>>]

\* Clamp without its upper branch
Clamp_NoUpper(x, field) ==
    IF x < Range[field][1] THEN Range[field][1] ELSE x

\* the if / elif pair of one field: the value after it
Clamp(x, field) ==
    IF x > Range[field][2] THEN Range[field][2]
    ELSE IF x < Range[field][1] THEN Range[field][1]
    ELSE x

\* the if / elif pair of one field: the WARNING lines it prints for row i of g
Warn(g, i, x, field) ==
    IF x > Range[field][2]
        THEN <<[table |-> g, index |-> i, field |-> field,
                set_to |-> Range[field][2]]>>
    ELSE IF x < Range[field][1]
        THEN <<[table |-> g, index |-> i, field |-> field,
                set_to |-> Range[field][1]]>>
    ELSE <<>>

\* the span of each axis of the grid of Table A1, as fit_parameters.py lines
\* 49-54 give it for the Cepheid part and for the TRGB part of the table
GridSpan(cep) ==
    IF cep
    THEN [Teff |-> <<35000, 60000>>, logg |-> <<0, 20000>>,
          FeH |-> <<-200, 50>>, z |-> <<0, 300>>, EBV |-> <<0, 400>>]
    ELSE [Teff |-> <<35000, 60000>>, logg |-> <<0, 5000>>,
          FeH |-> <<-200, -150>>, z |-> <<0, 300>>, EBV |-> <<0, 50>>]

\* A RegularGridInterpolator (bounds_error left True, lines 77-82) raises
\* ValueError for a point outside its grid.
InGrid(cep, p) ==
    \A f \in {"Teff", "logg", "FeH", "z", "EBV"} :
        GridSpan(cep)[f][1] <= p[f] /\ p[f] <= GridSpan(cep)[f][2]

\* lines 127-161, one row of correct_DF of interpolated_K_corr_Cep
CepRow(g, i, row, a) ==
    LET Teff == fun_Teff(row.logP)
        logg == fun_logg(row.logP)
        FeH  == row.MH
        z    == row.z
        p    == [Teff |-> Clamp(Teff, "Teff"), logg |-> Clamp(logg, "logg"),
                 FeH |-> Clamp(FeH, "FeH"), z |-> Clamp(z, "z"), EBV |-> a.EBV]
    IN  [h |-> [table |-> g, index |-> i, point |-> p],
         w |-> Warn(g, i, Teff, "Teff") \o Warn(g, i, logg, "logg")
               \o Warn(g, i, FeH, "FeH") \o Warn(g, i, z, "z"),
         raised |-> ~InGrid(TRUE, p),
         row |-> [row EXCEPT !.mag = Append(@, [K |-> "H-R*(V-I)", at |-> p])]]

\* lines 216-225, one row of correct_DF of interpolated_K_corr_TRGB
TRGBRow(g, i, row, a) ==
    LET z == row.z
        p == [Teff |-> a.Teff, logg |-> a.logg, FeH |-> a.FeH,
              z |-> Clamp(z, "z"), EBV |-> a.EBV]
    IN  [h |-> [table |-> g, index |-> i, point |-> p],
         w |-> Warn(g, i, z, "z"),
         raised |-> ~InGrid(FALSE, p),
         row |-> [row EXCEPT !.mag = Append(@, [K |-> "I", at |-> p])]]

\* correct_DF: the rows in order, up to the first ValueError.  acc is the
\* console and the points handed so far in this call.
CorrectDF(cep, g, t, a, acc) ==
    LET F[i \in 0..Len(t)] ==
            IF i = 0
            THEN [t |-> t, handed |-> acc.handed, warnings |-> acc.warnings,
                  raised |-> acc.raised]
            ELSE LET prev == F[i - 1]
                     st   == IF cep THEN CepRow(g, i - 1, t[i], a)
                                    ELSE TRGBRow(g, i - 1, t[i], a)
                 IN  IF prev.raised THEN prev
                     ELSE [t |-> IF st.raised THEN prev.t
                                 ELSE [prev.t EXCEPT ![i] = st.row],
                           handed |-> Append(prev.handed, st.h),
                           warnings |-> prev.warnings \o st.w,
                           raised |-> st.raised]
    IN  F[Len(t)]

\* the test that always builds
NeedBuild_Always(arg) == TRUE

\* lines 113 and 210: if interpolated_IHV == None / is None
NeedBuild(arg) == arg = None

\* the tuple interpolate_function returns, named by the call that built it
Built(cep, n) == [is_Cep |-> cep, built_by |-> n]

\* the rows of the Cepheid tables tried: all inputs in range, all above their
\* range, all below, and mixed
CepRowPool ==
    { [logP |-> 1, MH |-> 0,    z |-> 100, mag |-> <<>>],
      [logP |-> 0, MH |-> 60,   z |-> 400, mag |-> <<>>],
      [logP |-> 4, MH |-> -250, z |-> -10, mag |-> <<>>],
      [logP |-> 2, MH |-> 60,   z |-> -10, mag |-> <<>>] }

TRGBRowPool == { [z |-> zz, mag |-> <<>>] : zz \in {100, 400, -10} }

\* the arguments tried: E(B-V) = 0 and 0.05; Teff = 4200 (fp.Teff_TRGB) and the
\* 7000 K of the clamping scenario; logg = 0.5 and 2.5; [Fe/H] = -1.75
EBVValues == {0, 50}
TeffArgs == {42000, 70000}
loggArgs == {5000, 25000}
FeHArgs == {-175}

InitK ==
    /\ RejIdle
    /\ include_MW \in BOOLEAN
    /\ RLBIdle
    /\ GridIdle
    /\ KIdle
    /\ OldIdle
    /\ \E nc \in 0..MaxKRows, nt \in 0..MaxKRows :
         \E c \in [1..nc -> CepRowPool], t \in [1..nt -> TRGBRowPool] :
            DF_dict = [g \in Groups \ {"SNe_Hubble"} |->
                CASE g = "Cepheids"         -> c
                  [] g = "Cepheids_anchors" ->
                        <<[logP |-> 1, MH |-> -30, z |-> 0, mag |-> <<>>]>>
                  [] g = "Cepheids_MW"      ->
                        <<[logP |-> 0, MH |-> 10, z |-> 0, mag |-> <<>>]>>
                  [] g = "TRGB"             -> t
                  [] g = "TRGB_anchors"     -> <<[z |-> 0, mag |-> <<>>]>>]
    /\ DF_orig = DF_dict
    /\ pc = "kcorr"

\* what every call does around correct_DF: lines 112-115 / 209-212 before and
\* the return after.  cep tells the function, a its scalar arguments, arg its
\* interpolated_IHV argument, R the outcome of its correct_DF calls.
KCall(cep, a, arg, D, R) ==
    LET k     == IF cep THEN "Cep" ELSE "TRGB"
        build == NeedBuild(arg)
        total == n_builds.Cep + n_builds.TRGB
        used  == IF build THEN Built(cep, total + 1) ELSE arg
    IN  /\ n_builds' = IF build THEN [n_builds EXCEPT ![k] = @ + 1] ELSE n_builds
        /\ n_omitted' = IF arg = None THEN [n_omitted EXCEPT ![k] = @ + 1]
                        ELSE n_omitted
        /\ n_calls' = n_calls + 1
        /\ DF_dict' = D
        /\ warnings' = R.warnings
        /\ handed' = R.handed
        /\ last_call' = [fn |-> k, args |-> a, arg |-> arg, used |-> used,
                         built |-> IF build THEN 1 ELSE 0,
                         raised |-> R.raised,
                         ret |-> IF R.raised THEN None ELSE used]
        /\ held' = IF R.raised THEN held ELSE [held EXCEPT ![k] = used]
        /\ pc' = IF R.raised THEN "error" ELSE "kcorr"

Console0 == [handed |-> <<>>, warnings |-> <<>>, raised |-> FALSE]

\* lines 112-172: interpolated_K_corr_Cep(DF_dict, table, EBV, interpolated_IHV)
interpolated_K_corr_Cep ==
    /\ pc = "kcorr"
    /\ n_calls < MaxCalls
    /\ \E EBV \in EBVValues, pass \in BOOLEAN :
          LET a  == [EBV |-> EBV]
              r1 == CorrectDF(TRUE, "Cepheids", DF_dict["Cepheids"], a, Console0)
              r2 == CorrectDF(TRUE, "Cepheids_anchors",
                              DF_dict["Cepheids_anchors"], a, r1)
              r3 == IF include_MW
                    THEN CorrectDF(TRUE, "Cepheids_MW", DF_dict["Cepheids_MW"],
                                   a, r2)
                    ELSE [r2 EXCEPT !.t = DF_dict["Cepheids_MW"]]
          IN  KCall(TRUE, a, IF pass THEN held.Cep ELSE None,
                    [DF_dict EXCEPT !["Cepheids"] = r1.t,
                                    !["Cepheids_anchors"] = r2.t,
                                    !["Cepheids_MW"] = r3.t],
                    r3)
    /\ UNCHANGED <<include_MW, rejIdleVars, DF_orig, rlbVars, gridVars, oldVars>>

\* lines 209-233: interpolated_K_corr_TRGB(DF_dict, table, Teff, logg, FeH,
\* EBV, interpolated_IHV)
interpolated_K_corr_TRGB ==
    /\ pc = "kcorr"
    /\ n_calls < MaxCalls
    /\ \E Teff \in TeffArgs, logg \in loggArgs, FeH \in FeHArgs,
          EBV \in EBVValues, pass \in BOOLEAN :
          LET a  == [Teff |-> Teff, logg |-> logg, FeH |-> FeH, EBV |-> EBV]
              r1 == CorrectDF(FALSE, "TRGB", DF_dict["TRGB"], a, Console0)
              r2 == CorrectDF(FALSE, "TRGB_anchors", DF_dict["TRGB_anchors"],
                              a, r1)
          IN  KCall(FALSE, a, IF pass THEN held.TRGB ELSE None,
                    [DF_dict EXCEPT !["TRGB"] = r1.t,
                                    !["TRGB_anchors"] = r2.t],
                    r2)
    /\ UNCHANGED <<include_MW, rejIdleVars, DF_orig, rlbVars, gridVars, oldVars>>

NextK == interpolated_K_corr_Cep \/ interpolated_K_corr_TRGB

SpecK == InitK /\ [][NextK]_vars

-----------------------------------------------------------------------------
(* Claims about the K-correction apply steps                               *)

ClampedFields == {"Teff", "logg", "FeH", "z"}

\* the input of field f behind the point h of the last call, before any clamp
RawInput(h, f) ==
    LET row == DF_orig[h.table][h.index + 1]
    IN  IF last_call.fn = "Cep"
        THEN CASE f = "Teff" -> fun_Teff(row.logP)
               [] f = "logg" -> fun_logg(row.logP)
               [] f = "FeH"  -> row.MH
               [] f = "z"    -> row.z
        ELSE IF f = "z" THEN row.z ELSE last_call.args[f]

OutOfRange(x, f) == x > Range[f][2] \/ x < Range[f][1]

NearestBound(x, f) ==
    IF x > Range[f][2] THEN Range[f][2]
    ELSE IF x < Range[f][1] THEN Range[f][1] ELSE x

WarningsFor(h, f) ==
    Cardinality({j \in DOMAIN warnings :
                    /\ warnings[j].table = h.table
                    /\ warnings[j].index = h.index
                    /\ warnings[j].field = f})

\* the point handed for h has field f at the nearest bound of its range, with
\* one warning when the input was out of range and none otherwise
ClampedAndWarned(h, f) ==
    /\ h.point[f] = NearestBound(RawInput(h, f), f)
    /\ WarningsFor(h, f) = IF OutOfRange(RawInput(h, f), f) THEN 1 ELSE 0

\* the point handed for h has field f as the input was, with no warning
HandedAsGiven(h, f) ==
    /\ h.point[f] = RawInput(h, f)
    /\ WarningsFor(h, f) = 0

\* C7 as stated: in both apply steps every Teff, logg, [Fe/H] and z handed to
\* the interpolators, derived from a row or supplied by the caller, is the
\* input clamped to its range, with one warning for that row and field when
\* it was out of range and none when it was in range.
C7_EveryInputClamped ==
    \A j \in DOMAIN handed : \A f \in ClampedFields :
        ClampedAndWarned(handed[j], f)

\* C7 as amended: interpolated_K_corr_Cep clamps all four inputs of a row and
\* warns once per clamped field; interpolated_K_corr_TRGB does so for the
\* row's z only, and hands the caller's Teff, logg and [Fe/H] on as given,
\* without a warning, in range or not.
C7_ClampedWhereDerived ==
    \A j \in DOMAIN handed : \A f \in ClampedFields :
        IF last_call.fn = "Cep" \/ f = "z"
        THEN ClampedAndWarned(handed[j], f)
        ELSE HandedAsGiven(handed[j], f)

\* a TRGB call whose row had z above 0.03, clamped with a warning, and whose
\* Teff argument of 7000 K reached the interpolator as 7000 K; and before it a
\* Cepheid call
C7_Witness ==
    /\ n_calls = 2
    /\ last_call # None
    /\ last_call.fn = "TRGB"
    /\ \E j \in DOMAIN handed :
          /\ handed[j].table = "TRGB"
          /\ RawInput(handed[j], "z") > Range["z"][2]
          /\ handed[j].point.z = Range["z"][2]
          /\ WarningsFor(handed[j], "z") = 1
          /\ handed[j].point.Teff = 70000
    /\ Len(DF_dict["Cepheids_anchors"][1].mag) = 1

\* C9: a call given interpolators builds none, uses the ones given and returns
\* them; a call given none builds once and returns what it built; so each
\* function has built as many grids as it had calls that omitted them.
C9_InterpolatorReuse ==
    /\ \A k \in {"Cep", "TRGB"} : n_builds[k] = n_omitted[k]
    /\ last_call # None =>
          /\ last_call.arg # None =>
                /\ last_call.built = 0
                /\ last_call.used = last_call.arg
                /\ ~last_call.raised => last_call.ret = last_call.arg
          /\ last_call.arg = None =>
                /\ last_call.built = 1
                /\ last_call.used.built_by = n_builds.Cep + n_builds.TRGB
                /\ ~last_call.raised => last_call.ret = last_call.used

\* two calls of the Cepheid function, the second given what the first
\* returned: one grid built
C9_Witness ==
    /\ n_calls = 2
    /\ last_call # None
    /\ last_call.fn = "Cep"
    /\ last_call.arg # None
    /\ last_call.ret = last_call.arg
    /\ n_builds.Cep = 1
    /\ n_builds.TRGB = 0

-----------------------------------------------------------------------------
(* old_K_corr_Cep, relativistic_corrections.py lines 236-319               *)
(* z in 1e-4, m and c in 1e-5, logP in dex, V-I in mag, mW in 1e-9 mag.    *)
(* A number that a division produced is held exactly, as num / den.        *)

\* the most rows of the Cepheids table
MaxOldRows == 1

\* line 279: the reference redshifts
z_ref == <<19, 56, 98, 172, 245>>

\* lines 280-291: the reference slopes of a filter
m_ref(filter) ==
    CASE filter = "W"     -> <<348, 268, 189, 107, 31>>
      [] filter = "F555W" -> <<-284, -865, -1516, -2685, -3866>>
      [] filter = "F814W" -> <<-102, -311, -547, -940, -1273>>
      [] filter = "F160W" -> <<-118, -353, -604, -1010, -1438>>

\* lines 280-291: the reference intercepts of a filter
c_ref(filter) ==
    CASE filter = "W"     -> <<51, 174, 325, 596, 805>>
      [] filter = "F555W" -> <<-174, -547, -948, -1567, -2051>>
      [] filter = "F814W" -> <<-17, -91, -179, -282, -402>>
      [] filter = "F160W" -> <<100, 193, 319, 569, 828>>

KnownFilters == {"W", "F555W", "F814W", "F160W"}

\* line 304: the 0.105 of the F99 reddening law, in 1e-5
F99 == 10500

\* lines 264-265: y[i] + (z - zr[i]) * (y[i+1] - y[i]) / (zr[i+1] - zr[i])
Lerp(z, zr, y, i) ==
    [num |-> y[i] * (zr[i + 1] - zr[i]) + (z - zr[i]) * (y[i + 1] - y[i]),
     den |-> zr[i + 1] - zr[i]]

Whole(x) == [num |-> x, den |-> 1]

\* lines 262-268: the for loop from pass i on; None when no pass returns
RECURSIVE InterpolateFrom(_, _, _, _, _)
InterpolateFrom(i, z, zr, mr, cr) ==
    IF i > Len(zr) - 1 THEN None
    ELSE IF zr[i] <= z /\ z < zr[i + 1]
         THEN [m |-> Lerp(z, zr, mr, i), c |-> Lerp(z, zr, cr, i)]
         ELSE InterpolateFrom(i + 1, z, zr, mr, cr)

\* lines 248-276: interpolate(z, z_ref, m_ref, c_ref); m_ref[-2] is the last
\* element but one
interpolate(z, zr, mr, cr) ==
    LET r == InterpolateFrom(1, z, zr, mr, cr)
    IN  IF r # None THEN r
        ELSE IF z < zr[1]
             THEN [m |-> Whole(mr[1]), c |-> Whole(cr[1])]
             ELSE [m |-> Whole(mr[Len(mr) - 1]), c |-> Whole(cr[Len(cr) - 1])]

\* lines 302-304: mW + (m * logP + c) * z * V-I - 0.105 * z * V-I
OldCorrected(row, mc) ==
    [num |-> row.mW.num * mc.m.den
             + ((mc.m.num * row.logP + mc.c.num) - F99 * mc.m.den)
               * row.z * row.VI * row.mW.den,
     den |-> row.mW.den * mc.m.den]

\* lines 300-317: the loop over one table; col is the column it assigns
OldTable(t, filter, col) ==
    [i \in 1..Len(t) |->
        [t[i] EXCEPT ![col] =
            OldCorrected(t[i], interpolate(t[i].z, z_ref, m_ref(filter),
                                           c_ref(filter)))]]

\* the calls of interpolate the loop over table g makes
OldCalls(g, t, filter) ==
    [i \in 1..Len(t) |->
        [table |-> g, index |-> i - 1, z |-> t[i].z, filter |-> filter,
         ret |-> interpolate(t[i].z, z_ref, m_ref(filter), c_ref(filter))]]

\* the redshifts tried: below the first reference, on a reference, between
\* two, on the last reference and above it
OldZValues == {10, 19, 40, 98, 245, 300}

OldRow(z) == [z |-> z, logP |-> 1, VI |-> 1, mW |-> Whole(0), MW |-> None]

InitOld ==
    /\ RejIdle
    /\ include_MW \in BOOLEAN
    /\ RLBIdle
    /\ GridIdle
    /\ KIdle
    /\ old_filter \in KnownFilters \cup {"I"}
    /\ old_calls = <<>>
    /\ \E nc \in 0..MaxOldRows, na \in {0, 1} :
         \E c \in [1..nc -> OldZValues], a \in [1..na -> {0, 19}] :
            DF_dict = [g \in {"Cepheids", "Cepheids_anchors", "Cepheids_MW"} |->
                         CASE g = "Cepheids"         ->
                                 [i \in 1..nc |-> OldRow(c[i])]
                           [] g = "Cepheids_anchors" ->
                                 [i \in 1..na |-> OldRow(a[i])]
                           [] g = "Cepheids_MW"      -> <<OldRow(0)>>]
    /\ DF_orig = DF_dict
    /\ pc = "old"

\* lines 236-319.  A filter outside the four leaves m_ref unassigned (line
\* 293 only prints), and the first call of interpolate raises
\* UnboundLocalError.  The loop of the Milky Way assigns the column 'MW'.
old_K_corr_Cep ==
    /\ pc = "old"
    /\ LET rows == Len(DF_dict["Cepheids"]) + Len(DF_dict["Cepheids_anchors"])
                   + (IF include_MW THEN Len(DF_dict["Cepheids_MW"]) ELSE 0)
       IN  IF old_filter \notin KnownFilters
           THEN /\ pc' = IF rows > 0 THEN "error" ELSE "old_done"
                /\ UNCHANGED <<DF_dict, old_calls>>
           ELSE /\ DF_dict' =
                     [DF_dict EXCEPT
                        !["Cepheids"] = OldTable(@, old_filter, "mW"),
                        !["Cepheids_anchors"] = OldTable(@, old_filter, "mW"),
                        !["Cepheids_MW"] =
                            IF include_MW THEN OldTable(@, old_filter, "MW")
                            ELSE @]
                /\ old_calls' =
                     OldCalls("Cepheids", DF_dict["Cepheids"], old_filter)
                     \o OldCalls("Cepheids_anchors",
                                 DF_dict["Cepheids_anchors"], old_filter)
                     \o (IF include_MW
                         THEN OldCalls("Cepheids_MW", DF_dict["Cepheids_MW"],
                                       old_filter)
                         ELSE <<>>)
                /\ pc' = "old_done"
    /\ UNCHANGED <<include_MW, rejIdleVars, DF_orig, rlbVars, gridVars, kVars,
                   old_filter>>

NextOld == old_K_corr_Cep

SpecOld == InitOld /\ [][NextOld]_vars

\* a = b, for two numbers held as num / den
SameNumber(a, b) == a.num * b.den = b.num * a.den

\* the value at z of the straight line through the reference points i and
\* i + 1 of the column y
OnLine(v, z, y, i) ==
    v.num * (z_ref[i + 1] - z_ref[i])
      = v.den * (y[i] * (z_ref[i + 1] - z_ref[i])
                 + (z - z_ref[i]) * (y[i + 1] - y[i]))

\* what the legacy interpolation is documented to return for column y at z
Documented(v, z, y) ==
    IF z < z_ref[1] THEN SameNumber(v, Whole(y[1]))
    ELSE IF z > z_ref[5] THEN SameNumber(v, Whole(y[5]))
    ELSE \E i \in 1..4 :
            z_ref[i] <= z /\ z <= z_ref[i + 1] /\ OnLine(v, z, y, i)

\* C14: every call of interpolate returns, for z between the first and the
\* last reference redshift, both included, the linear interpolation of m and
\* of c between the two reference points around z, and so the documented
\* (m_ref[i], c_ref[i]) at each of the five reference redshifts; below the
\* first it returns the first point's coefficients, above the last the last
\* point's.
C14_LegacyInterpolation ==
    \A j \in DOMAIN old_calls :
        LET k == old_calls[j]
        IN  /\ Documented(k.ret.m, k.z, m_ref(k.filter))
            /\ Documented(k.ret.c, k.z, c_ref(k.filter))

-----------------------------------------------------------------------------
(* Further claims about single_kappa_clipping                              *)

\* worst = fp.kappa * std, exactly
AtThreshold ==
    GeKappaStd(worst, fp_kappa, std) /\ LeKappaStd(worst, fp_kappa, std)

\* C11: an iteration that finds the largest residual equal to kappa * std
\* removes no row and goes on to write the outputs and return.  Stated for
\* the calls whose kappa argument equals fp.kappa, where the kappa of the
\* claim and the kappa of line 76 are the same number, with at least one
\* class enabled and a fit whose residuals are not all equal (std > 0).
C11_StopsAtEquality ==
    [][(pc = "loop" /\ kappa = fp_kappa /\ (include_Cepheids \/ fit_aB)
        /\ std.sq > 0 /\ AtThreshold)
          => (pc' = "done" /\ DF_dict' = DF_dict
              /\ DF_dict_outliers' = DF_dict_outliers)]_vars

\* C12 as stated: from the start of the rejection to the return, every group
\* label of DF_dict is a key of DF_dict_outliers.
C12_EveryGroupHasExcludedTable ==
    pc # "start" => DOMAIN DF_dict \subseteq DOMAIN DF_dict_outliers

\* C12 as amended: from the start of the rejection to the return, the keys of
\* DF_dict_outliers are the groups of the enabled classes and no others:
\* Cepheids and Cepheids_anchors when include_Cepheids is on, Cepheids_MW when
\* include_MW is on as well, SNe_Hubble when fit_aB is on.  TRGB and
\* TRGB_anchors never have one.  The table of SNe_Hubble begins with the rows
\* of SNe_other; every other row of an excluded table is a row its group had
\* at the call.
C12_ExcludedKeysAreEnabledGroups ==
    pc # "start" =>
        /\ \A g \in DOMAIN DF_dict :
              g \in DOMAIN DF_dict_outliers <=>
                 \/ g \in {"Cepheids", "Cepheids_anchors"} /\ include_Cepheids
                 \/ g = "Cepheids_MW" /\ include_Cepheids /\ include_MW
                 \/ g = "SNe_Hubble" /\ fit_aB
        /\ DOMAIN DF_dict_outliers \subseteq DOMAIN DF_dict
        /\ \A g \in DOMAIN DF_dict_outliers :
              LET seed == IF g = "SNe_Hubble" THEN SNe_other ELSE <<>>
                  t    == DF_dict_outliers[g]
              IN  /\ Len(t) >= Len(seed)
                  /\ SubSeq(t, 1, Len(seed)) = seed
                  /\ \A i \in (Len(seed) + 1)..Len(t) :
                        \E j \in 1..Len(DF_orig[g]) : t[i] = DF_orig[g][j]

\* the loop is running with a Cepheid excluded, the Milky Way Cepheids
\* switched off while their table has rows, and so no excluded table for them
C12_Witness ==
    /\ pc = "loop"
    /\ include_Cepheids
    /\ ~include_MW
    /\ DF_dict["Cepheids_MW"] # <<>>
    /\ Len(DF_dict_outliers["Cepheids"]) = 1
    /\ "Cepheids_MW" \notin DOMAIN DF_dict_outliers

\* C13: with both classes disabled the test of the while loop is false at the
\* first check, whatever the fit returned, so the function goes straight to
\* its outputs.
C13_DisabledStopsAtFirstCheck ==
    (pc = "loop" /\ ~include_Cepheids /\ ~fit_aB) => ~LoopTest

\* the number of active rows, all groups together
RECURSIVE RowsIn(_, _)
RowsIn(D, S) ==
    IF S = {} THEN 0
    ELSE LET g == CHOOSE x \in S : TRUE
         IN  Len(D[g]) + RowsIn(D, S \ {g})

ActiveRows(D) == RowsIn(D, DOMAIN D)

\* C15: an iteration whose stopping test fails either ends the function with
\* an error or leaves fewer active rows than it found.
C15_EveryIterationRemovesARow ==
    [][(pc = "loop" /\ LoopTest)
          => (pc' = "error" \/ ActiveRows(DF_dict') < ActiveRows(DF_dict))]_vars

=============================================================================
